---- MODULE Spec2Model ----
(***************************************************************************)
(* Streaming TTS engine of paddlespeech/server/engine/tts/online/          *)
(* tts_engine.py: the generator TTSServerExecutor.infer (sentence loop,    *)
(* chunked vocoder calls, overlap trimming, yield), the generator          *)
(* TTSEngine.run that wraps it, and TTSEngine.postprocess.                 *)
(*                                                                         *)
(* A waveform sample is labelled by the frame it was produced from:        *)
(* sample k of frame f is the number f * voc_upsample + k, so the          *)
(* non-chunked synthesis of L frames is << 0, 1, ..., L*voc_upsample-1 >>. *)
(***************************************************************************)
EXTENDS Integers, Sequences, FiniteSets, TLC

\* ------------------------------------------------------------------ bounds
MaxSent == 2      \* sentences the frontend splits a text into
MaxL == 5         \* mel frames the acoustic model returns for one sentence
MaxBlock == 2     \* voc_block
MaxPad == 3       \* voc_pad
MaxUp == 2        \* voc_config.n_shift
MaxWav == 2       \* samples of the waveform handed to postprocess

\* --------------------------------------------------------------- variables
VARIABLES
    \* request and configuration
    lang, text, voc_block, voc_pad, voc_upsample,
    \* control: who runs, position of both generators, pulls issued
    active, inferPc, runPc, pulls,
    \* locals of TTSServerExecutor.infer
    phone_ids, printed, sentIt, i, mel, mel_chunks, chunk_num, chunkIt,
    sub_wav, inferErr,
    \* history of the external calls and of the values infer yielded
    amLog, vocLog, inferOut,
    \* locals of TTSEngine.run and what its caller has received
    wav_list, emitted, duration, runErr,
    \* TTSEngine.postprocess: arguments, platform, locals, outcome
    wav, original_fs, target_fs, volume, speed, audio_path, sox,
    postPc, resampled, wav_tar_fs, wav_vol, wav_speed, ret, postErr, file,
    saveLogged,
    \* TTSEngine.init: its argument, the attributes of the engine object,
    \* the device paddle runs on, the executor's models, and its outcome
    config, engine, deviceSet, loaded, initPc, initRet, initErr,
    \* the arguments speed, volume, sample_rate, save_path of TTSEngine.run
    runArgs

streamVars == << lang, text, voc_block, voc_pad, voc_upsample,
                 active, inferPc, runPc, pulls,
                 phone_ids, printed, sentIt, i, mel, mel_chunks, chunk_num,
                 chunkIt, sub_wav, inferErr, amLog, vocLog, inferOut,
                 wav_list, emitted, duration, runErr >>

postVars == << wav, original_fs, target_fs, volume, speed, audio_path, sox,
               postPc, resampled, wav_tar_fs, wav_vol, wav_speed, ret,
               postErr, file, saveLogged >>

engineVars == << config, engine, deviceSet, loaded, initPc, initRet, initErr >>

callVars == << runArgs >>

vars == << streamVars, postVars, engineVars, callVars >>

\* ----------------------------------------------------------------- helpers
Unbound == "unbound"     \* a Python local that no assignment has reached
None == "None"
\* a waveform local of postprocess that no assignment has reached
UnboundWav == [unbound |-> TRUE]

Min(a, b) == IF a < b THEN a ELSE b
Max(a, b) == IF a > b THEN a ELSE b

\* math.ceil(a / b) for a >= 0, b > 0
Ceil(a, b) == (a + b - 1) \div b

\* s[a:b] of Python for 0 <= a, 0 <= b: both ends clipped to len(s)
PySlice(s, a, b) ==
    LET lo == Min(a, Len(s))
        hi == Min(b, Len(s))
    IN  IF hi <= lo THEN << >> ELSE SubSeq(s, lo + 1, hi)

\* s[a:] of Python for 0 <= a
PySliceFrom(s, a) == PySlice(s, a, Len(s))

RECURSIVE Concat(_)
\* np.concatenate of a list of one-dimensional arrays
Concat(ss) == IF ss = << >> THEN << >> ELSE Head(ss) \o Concat(Tail(ss))

\* the mel the acoustic model returns: L frames, frame f labelled f
am_inference(L) == [f \in 1..L |-> f - 1]

\* paddlespeech.server.utils.util.get_chunks(data, block_size, pad_size, "voc"):
\* ceil(L / block) chunks, chunk c holding the frames
\* [max(0, c*block - pad), min((c+1)*block + pad, L))
get_chunks(data, block_size, pad_size) ==
    LET n == Ceil(Len(data), block_size)
    IN  [c \in 1..n |->
            PySlice(data,
                    Max(0, (c - 1) * block_size - pad_size),
                    Min(c * block_size + pad_size, Len(data)))]

\* the vocoder: n_shift samples per frame of the chunk it is given
voc_inference(mel_chunk, u) ==
    [j \in 1..(Len(mel_chunk) * u) |->
        mel_chunk[((j - 1) \div u) + 1] * u + ((j - 1) % u)]

\* line 106 with the configured pad in place of the available context
FrontPadConfigured(idx, block, pad) == pad

\* line 106: front_pad = min(i*voc_block, voc_pad)
front_pad(idx, block, pad) == Min(idx * block, pad)

\* lines 108-113 with the last chunk cut like an interior one from offset 0
TrimKeepFront(w, idx, n, block, pad, u) ==
    IF idx = 0 THEN PySlice(w, 0, block * u)
    ELSE IF idx = n - 1 THEN w
    ELSE PySlice(w, front_pad(idx, block, pad) * u,
                    (front_pad(idx, block, pad) + block) * u)

\* lines 108-113 with the first chunk passed on untrimmed
TrimFirstWhole(w, idx, n, block, pad, u) ==
    IF idx = 0 THEN w
    ELSE IF idx = n - 1 THEN PySliceFrom(w, front_pad(idx, block, pad) * u)
    ELSE PySlice(w, front_pad(idx, block, pad) * u,
                    (front_pad(idx, block, pad) + block) * u)

\* lines 108-113 without the first-chunk branch and with the configured pad
\* dropped at the front of every chunk
TrimDropFront(w, idx, n, block, pad, u) ==
    IF idx = n - 1 THEN PySliceFrom(w, pad * u)
    ELSE PySlice(w, pad * u, (pad + block) * u)

\* lines 108-113: the overlap trimmer
Trim(w, idx, n, block, pad, u) ==
    IF idx = 0 THEN PySlice(w, 0, block * u)
    ELSE IF idx = n - 1 THEN PySliceFrom(w, front_pad(idx, block, pad) * u)
    ELSE PySlice(w, front_pad(idx, block, pad) * u,
                    (front_pad(idx, block, pad) + block) * u)

\* paddlespeech.server.utils.audio_process.float2pcm: float32 -> int16
float2pcm(w) == [k \in 1..Len(w) |-> << "int16", w[k] >>]

\* line 294-295: wav.tobytes(), base64.b64encode(...).decode('utf8')
b64encode(bytes) == << "b64", bytes >>

\* self.executor.am_config.fs, the native sample rate
fs == 24000

\* ------------------------------------------------------------------- Init
Langs == {"zh", "en", "fr"}

RECURSIVE SeqsUpTo(_, _)
SeqsUpTo(S, n) ==
    IF n = 0 THEN {<< >>}
    ELSE LET shorter == SeqsUpTo(S, n - 1)
         IN  shorter \cup {Append(s, x) : s \in {t \in shorter : Len(t) = n - 1}, x \in S}

PostIdle ==
    /\ wav = UnboundWav /\ original_fs = fs /\ target_fs = 0 /\ volume = 1 /\ speed = "1.0"
    /\ audio_path = None /\ sox = "available"
    /\ postPc = "idle" /\ resampled = FALSE
    /\ wav_tar_fs = UnboundWav /\ wav_vol = UnboundWav /\ wav_speed = UnboundWav
    /\ ret = None /\ postErr = None /\ file = None /\ saveLogged = FALSE

\* lines 167-174: the engine after a successful init(config); the chunking
\* parameters of the acoustic stage are the defaults of lines 52-53
EngineReady ==
    /\ config = [device |-> "cpu", am_block |-> 42, am_pad |-> 12,
                 voc_block |-> voc_block, voc_pad |-> voc_pad]
    /\ engine = [device |-> "cpu", am_block |-> 42, am_pad |-> 12,
                 voc_block |-> voc_block, voc_pad |-> voc_pad]
    /\ deviceSet = TRUE /\ loaded = TRUE
    /\ initPc = "returned" /\ initRet = TRUE /\ initErr = None

\* lines 262-265: the defaults of run's speed, volume, sample_rate, save_path
DefaultArgs ==
    [speed |-> "1.0", volume |-> 1, sample_rate |-> 0, save_path |-> None]

\* state after TTSEngine.init and before the caller's first pull on run(...):
\* text[s] is the number of mel frames the acoustic model produces for
\* sentence s of the request
Init ==
    /\ lang \in Langs
    /\ \/ /\ text \in SeqsUpTo(0..MaxL, MaxSent)
          /\ voc_block \in 1..MaxBlock
          /\ voc_pad \in 0..MaxPad
       \/ \* one sentence of 50 or of 10 frames cut with block 42, pad 12
          /\ text \in {<< 50 >>, << 10 >>}
          /\ voc_block = 42
          /\ voc_pad = 12
    /\ voc_upsample \in 1..MaxUp
    /\ active = "caller" /\ inferPc = "entry" /\ runPc = "init" /\ pulls = 0
    /\ phone_ids = Unbound /\ printed = FALSE /\ sentIt = 0 /\ i = Unbound
    /\ mel = Unbound /\ mel_chunks = Unbound /\ chunk_num = Unbound
    /\ chunkIt = 0 /\ sub_wav = Unbound /\ inferErr = None
    /\ amLog = << >> /\ vocLog = << >> /\ inferOut = << >>
    /\ wav_list = << >> /\ emitted = << >> /\ duration = None /\ runErr = None
    /\ PostIdle
    /\ EngineReady
    /\ runArgs = DefaultArgs

\* ---------------------------------------------------------------- actions
\* an exception leaves infer and run with the run generator swallowing it
\* and going on to its epilogue
RaiseSwallowed(exc) ==
    /\ inferPc' = "raised" /\ inferErr' = exc
    /\ runPc' = "concat" /\ runErr' = runErr
    /\ active' = "run"

\* an exception raised inside infer: neither infer nor run (lines 291-298)
\* has a handler, so it ends both generators and reaches run's caller
Raise(exc) ==
    /\ inferPc' = "raised" /\ inferErr' = exc
    /\ runPc' = "raised" /\ runErr' = exc
    /\ active' = "caller"

\* the caller pulls the next item of run(...): lines 288-291 on the first
\* pull, the loop header of line 291 afterwards; run in turn pulls infer
Pull ==
    /\ active = "caller" /\ runPc \in {"init", "yielded"}
    /\ pulls' = pulls + 1
    /\ runPc' = "for"
    /\ inferPc' = IF inferPc = "yielded" THEN "chunkloop" ELSE inferPc
    /\ active' = "infer"
    /\ wav_list' = IF runPc = "init" THEN << >> ELSE wav_list
    /\ UNCHANGED << lang, text, voc_block, voc_pad, voc_upsample,
                    phone_ids, printed, sentIt, i, mel, mel_chunks, chunk_num,
                    chunkIt, sub_wav, inferErr, amLog, vocLog, inferOut,
                    emitted, duration, runErr >>
    /\ UNCHANGED << postVars, engineVars, callVars >>

\* lines 59-80: the frontend; an unsupported language is printed and the
\* function goes on with phone_ids unassigned
InferFrontend ==
    /\ active = "infer" /\ inferPc = "entry"
    /\ IF lang \in {"zh", "en"}
         THEN phone_ids' = text /\ printed' = printed
         ELSE phone_ids' = phone_ids /\ printed' = TRUE
    /\ inferPc' = "sentloop"
    /\ UNCHANGED << lang, text, voc_block, voc_pad, voc_upsample,
                    active, runPc, pulls, sentIt, i, mel, mel_chunks,
                    chunk_num, chunkIt, sub_wav, inferErr, amLog, vocLog,
                    inferOut, wav_list, emitted, duration, runErr >>
    /\ UNCHANGED << postVars, engineVars, callVars >>

\* line 82 as a counting loop on the shared variable: the next sentence is
\* i + 1, with i as the chunk loop of the previous sentence left it
InferSentenceLoopShared ==
    /\ active = "infer" /\ inferPc = "sentloop"
    /\ IF phone_ids = Unbound
         THEN /\ Raise("UnboundLocalError")
              /\ UNCHANGED << sentIt, i >>
         ELSE LET nxt == IF sentIt = 0 THEN 0 ELSE i + 1
              IN  IF nxt < Len(phone_ids)
                    THEN /\ i' = nxt /\ sentIt' = nxt + 1
                         /\ inferPc' = "am"
                         /\ UNCHANGED << inferErr, runPc, runErr, active >>
                    ELSE /\ inferPc' = "done" /\ runPc' = "concat"
                         /\ active' = "run"
                         /\ UNCHANGED << sentIt, i, inferErr, runErr >>
    /\ UNCHANGED << lang, text, voc_block, voc_pad, voc_upsample, pulls,
                    phone_ids, printed, mel, mel_chunks, chunk_num, chunkIt,
                    sub_wav, amLog, vocLog, inferOut, wav_list, emitted,
                    duration >>
    /\ UNCHANGED << postVars, engineVars, callVars >>

\* line 82: for i in range(len(phone_ids)); reading the unassigned local
\* raises UnboundLocalError; exhaustion ends infer, and run leaves its loop
InferSentenceLoop ==
    /\ active = "infer" /\ inferPc = "sentloop"
    /\ IF phone_ids = Unbound
         THEN /\ Raise("UnboundLocalError")
              /\ UNCHANGED << sentIt, i >>
         ELSE IF sentIt < Len(phone_ids)
         THEN /\ i' = sentIt /\ sentIt' = sentIt + 1
              /\ inferPc' = "am"
              /\ UNCHANGED << inferErr, runPc, runErr, active >>
         ELSE /\ inferPc' = "done" /\ runPc' = "concat" /\ active' = "run"
              /\ UNCHANGED << sentIt, i, inferErr, runErr >>
    /\ UNCHANGED << lang, text, voc_block, voc_pad, voc_upsample, pulls,
                    phone_ids, printed, mel, mel_chunks, chunk_num, chunkIt,
                    sub_wav, amLog, vocLog, inferOut, wav_list, emitted,
                    duration >>
    /\ UNCHANGED << postVars, engineVars, callVars >>

\* lines 83-103 with voc_pad and voc_block exchanged in the call of line 101
InferAmSwapped ==
    /\ active = "infer" /\ inferPc = "am"
    /\ amLog' = Append(amLog, i)
    /\ \E ok \in BOOLEAN :
         IF ok
           THEN /\ mel' = am_inference(phone_ids[i + 1])
                /\ mel_chunks' = get_chunks(mel', Max(voc_pad, 1), voc_block)
                /\ chunk_num' = Len(mel_chunks')
                /\ chunkIt' = 0
                /\ inferPc' = "chunkloop"
                /\ UNCHANGED << inferErr, runPc, runErr, active >>
           ELSE /\ Raise("AmFailure")
                /\ UNCHANGED << mel, mel_chunks, chunk_num, chunkIt >>
    /\ UNCHANGED << lang, text, voc_block, voc_pad, voc_upsample, pulls,
                    phone_ids, printed, sentIt, i, sub_wav, vocLog, inferOut,
                    wav_list, emitted, duration >>
    /\ UNCHANGED << postVars, engineVars, callVars >>

\* lines 83-103: the acoustic model on sentence i, then get_chunks
InferAm ==
    /\ active = "infer" /\ inferPc = "am"
    /\ amLog' = Append(amLog, i)
    /\ \E ok \in BOOLEAN :
         IF ok
           THEN /\ mel' = am_inference(phone_ids[i + 1])
                /\ mel_chunks' = get_chunks(mel', voc_block, voc_pad)
                /\ chunk_num' = Len(mel_chunks')
                /\ chunkIt' = 0
                /\ inferPc' = "chunkloop"
                /\ UNCHANGED << inferErr, runPc, runErr, active >>
           ELSE /\ Raise("AmFailure")
                /\ UNCHANGED << mel, mel_chunks, chunk_num, chunkIt >>
    /\ UNCHANGED << lang, text, voc_block, voc_pad, voc_upsample, pulls,
                    phone_ids, printed, sentIt, i, sub_wav, vocLog, inferOut,
                    wav_list, emitted, duration >>
    /\ UNCHANGED << postVars, engineVars, callVars >>

\* lines 104-105: next chunk of enumerate(mel_chunks) and its vocoder call;
\* when the chunks are exhausted control is back at line 82
InferChunkLoop ==
    /\ active = "infer" /\ inferPc = "chunkloop"
    /\ IF chunkIt < Len(mel_chunks)
         THEN /\ i' = chunkIt /\ chunkIt' = chunkIt + 1
              /\ vocLog' = Append(vocLog, << sentIt - 1, chunkIt >>)
              /\ \E ok \in BOOLEAN :
                   IF ok
                     THEN /\ sub_wav' = voc_inference(mel_chunks[chunkIt + 1],
                                                      voc_upsample)
                          /\ inferPc' = "trim"
                          /\ UNCHANGED << inferErr, runPc, runErr, active >>
                     ELSE /\ Raise("VocFailure")
                          /\ UNCHANGED sub_wav
         ELSE /\ inferPc' = "sentloop"
              /\ UNCHANGED << i, chunkIt, vocLog, sub_wav, inferErr, runPc,
                              runErr, active >>
    /\ UNCHANGED << lang, text, voc_block, voc_pad, voc_upsample, pulls,
                    phone_ids, printed, sentIt, mel, mel_chunks, chunk_num,
                    amLog, inferOut, wav_list, emitted, duration >>
    /\ UNCHANGED << postVars, engineVars, callVars >>

\* lines 106-115 with the trimmed chunk kept back instead of yielded
InferTrimNoYield ==
    /\ active = "infer" /\ inferPc = "trim"
    /\ sub_wav' = Trim(sub_wav, i, chunk_num, voc_block, voc_pad, voc_upsample)
    /\ inferPc' = "chunkloop"
    /\ UNCHANGED << lang, text, voc_block, voc_pad, voc_upsample, pulls,
                    phone_ids, printed, sentIt, i, mel, mel_chunks, chunk_num,
                    chunkIt, inferErr, amLog, vocLog, inferOut, active, runPc,
                    wav_list, emitted, duration, runErr >>
    /\ UNCHANGED << postVars, engineVars, callVars >>

\* lines 106-115: trim the chunk's audio and yield it to run (line 291)
InferTrimYield ==
    /\ active = "infer" /\ inferPc = "trim"
    /\ sub_wav' = Trim(sub_wav, i, chunk_num, voc_block, voc_pad, voc_upsample)
    /\ inferOut' = Append(inferOut, << sentIt - 1, sub_wav' >>)
    /\ inferPc' = "yielded"
    /\ runPc' = "body" /\ active' = "run"
    /\ UNCHANGED << lang, text, voc_block, voc_pad, voc_upsample, pulls,
                    phone_ids, printed, sentIt, i, mel, mel_chunks, chunk_num,
                    chunkIt, inferErr, amLog, vocLog, wav_list, emitted,
                    duration, runErr >>
    /\ UNCHANGED << postVars, engineVars, callVars >>

\* lines 292-298 with the chunk appended but not yielded: run goes straight
\* back to the loop header of line 291 and pulls infer again
RunBodyNoYield ==
    /\ active = "run" /\ runPc = "body"
    /\ wav_list' = Append(wav_list, float2pcm(sub_wav))
    /\ emitted' = Append(emitted, b64encode(float2pcm(sub_wav)))
    /\ runPc' = "for" /\ active' = "infer" /\ inferPc' = "chunkloop"
    /\ UNCHANGED << lang, text, voc_block, voc_pad, voc_upsample, pulls,
                    phone_ids, printed, sentIt, i, mel, mel_chunks,
                    chunk_num, chunkIt, sub_wav, inferErr, amLog, vocLog,
                    inferOut, duration, runErr >>
    /\ UNCHANGED << postVars, engineVars, callVars >>

\* lines 292-298 with the requested volume applied to the chunk
RunBodyScaled ==
    /\ active = "run" /\ runPc = "body"
    /\ LET scaled == [k \in 1..Len(sub_wav) |-> sub_wav[k] * runArgs.volume]
       IN  /\ wav_list' = Append(wav_list, float2pcm(scaled))
           /\ emitted' = Append(emitted, b64encode(float2pcm(scaled)))
    /\ runPc' = "yielded" /\ active' = "caller"
    /\ UNCHANGED << lang, text, voc_block, voc_pad, voc_upsample, pulls,
                    inferPc, phone_ids, printed, sentIt, i, mel, mel_chunks,
                    chunk_num, chunkIt, sub_wav, inferErr, amLog, vocLog,
                    inferOut, duration, runErr >>
    /\ UNCHANGED << postVars, engineVars, callVars >>

\* lines 292-298: convert the chunk run received, append it, yield base64
RunBody ==
    /\ active = "run" /\ runPc = "body"
    /\ wav_list' = Append(wav_list, float2pcm(sub_wav))
    /\ emitted' = Append(emitted, b64encode(float2pcm(sub_wav)))
    /\ runPc' = "yielded" /\ active' = "caller"
    /\ UNCHANGED << lang, text, voc_block, voc_pad, voc_upsample, pulls,
                    inferPc, phone_ids, printed, sentIt, i, mel, mel_chunks,
                    chunk_num, chunkIt, sub_wav, inferErr, amLog, vocLog,
                    inferOut, duration, runErr >>
    /\ UNCHANGED << postVars, engineVars, callVars >>

\* lines 300-301: np.concatenate(wav_list) raises ValueError on an empty
\* list; otherwise the duration len(wav_all)/fs is logged and run ends
RunFinish ==
    /\ active = "run" /\ runPc = "concat"
    /\ IF wav_list = << >>
         THEN /\ runPc' = "raised" /\ runErr' = "ValueError"
              /\ UNCHANGED duration
         ELSE /\ duration' = [num |-> Len(Concat(wav_list)), den |-> fs]
              /\ runPc' = "done"
              /\ UNCHANGED runErr
    /\ active' = "caller"
    /\ UNCHANGED << lang, text, voc_block, voc_pad, voc_upsample, pulls,
                    inferPc, phone_ids, printed, sentIt, i, mel, mel_chunks,
                    chunk_num, chunkIt, sub_wav, inferErr, amLog, vocLog,
                    inferOut, wav_list, emitted >>
    /\ UNCHANGED << postVars, engineVars, callVars >>

Next ==
    \/ Pull
    \/ InferFrontend
    \/ InferSentenceLoop
    \/ InferAm
    \/ InferChunkLoop
    \/ InferTrimYield
    \/ RunBody
    \/ RunFinish

Spec == Init /\ [][Next]_vars

\* ------------------------------------------------- TTSEngine.postprocess
\* A waveform is an array of samples with a shape: column (N, 1) or flat (N,)
Samples == {-1, 1}
Rates == {16000, 24000}
TargetRates == {0, 8000, 16000, 24000, 48000}
Volumes == {0, 1, 2}
Speeds == {"0.5", "1.0", "2.0"}
Paths == {None, "out.wav", "out.pcm", "out.mp3"}

Abs(x) == IF x < 0 THEN -x ELSE x

\* np.squeeze: drops the axes of length one
Squeeze(w) == [col |-> FALSE, data |-> w.data]

\* librosa.resample(y, orig_sr, target_sr): y itself when the rates are
\* equal, otherwise ceil(len * target_sr / orig_sr) samples
Resample(y, orig_sr, target_sr) ==
    IF orig_sr = target_sr THEN y
    ELSE [col |-> y.col,
          data |-> [k \in 1..Ceil(Len(y.data) * target_sr, orig_sr) |->
                       y.data[(((k - 1) * orig_sr) \div target_sr) + 1]]]

\* line 209 with the native rate itself counted as "no conversion"
SkipResampleGeq(target, original) == target = 0 \/ target >= original

\* line 209: the test that skips the sample-rate conversion
SkipResample(target, original) == target = 0 \/ target > original

\* line 222: wav_tar_fs * volume
Scale(w, v) == [col |-> w.col, data |-> [k \in 1..Len(w.data) |-> w.data[k] * v]]

\* paddlespeech.server.utils.audio_process.change_speed on a platform where
\* it works: the waveform itself at speed 1.0, a time-scaled one otherwise
change_speed(w, rate) ==
    IF rate = "1.0" THEN w
    ELSE IF rate = "2.0"
    THEN [col |-> w.col,
          data |-> [k \in 1..Ceil(Len(w.data), 2) |-> w.data[2 * k - 1]]]
    ELSE [col |-> w.col,
          data |-> [k \in 1..(2 * Len(w.data)) |-> w.data[(k + 1) \div 2]]]

\* what the call of line 227 does: ServerBaseException where soxbindings is
\* unavailable, some other exception on another fault, a waveform otherwise
SpeedOutcome(platform, fault) ==
    IF platform = "unavailable" THEN "ServerBaseException"
    ELSE IF fault THEN "OtherException"
    ELSE "ok"

\* lines 226-235 with the ServerBaseException handler falling back to the
\* unmodified waveform
SpeedStepFallback(outcome, w, rate) ==
    IF outcome = "ok"
      THEN [raise |-> None, wav_speed |-> change_speed(w, rate)]
    ELSE IF outcome = "ServerBaseException"
      THEN [raise |-> None, wav_speed |-> w]
    ELSE [raise |-> None, wav_speed |-> UnboundWav]

\* lines 226-235: the try around change_speed; ServerBaseException is raised
\* again, any other exception is logged and leaves wav_speed unassigned
SpeedStep(outcome, w, rate) ==
    IF outcome = "ok"
      THEN [raise |-> None, wav_speed |-> change_speed(w, rate)]
    ELSE IF outcome = "ServerBaseException"
      THEN [raise |-> "ServerBaseException", wav_speed |-> UnboundWav]
    ELSE [raise |-> None, wav_speed |-> UnboundWav]

\* lines 238-241: scipy wavfile.write into a buffer, then base64
EncodeWav(rate, w) == b64encode(<< "RIFF", rate, w >>)

RECURSIVE Peak(_)
\* np.max(np.abs(x)) of a non-empty array
Peak(d) == IF Len(d) = 1 THEN Abs(d[1]) ELSE Max(Abs(d[1]), Peak(Tail(d)))

\* lines 249-250: wav_speed * (32767 / max(0.001, peak)), as int16
PcmNorm(w) ==
    LET p == Peak(w.data)
    IN  [k \in 1..Len(w.data) |->
            IF p = 0 THEN 0 ELSE (w.data[k] * 32767) \div p]

\* lines 244-255: what the save step leaves on disk, or the exception it
\* raises; writeOk is whether the file system accepts the write
SaveStep(path, w, rate, writeOk) ==
    IF path = None THEN [raise |-> None, file |-> None, logged |-> FALSE]
    ELSE IF path = "out.wav"
      THEN IF writeOk
             THEN [raise |-> None, file |-> << "wav", rate, w >>, logged |-> TRUE]
             ELSE [raise |-> "OSError", file |-> None, logged |-> FALSE]
    ELSE IF path = "out.pcm"
      THEN IF w.data = << >>
             THEN [raise |-> "ValueError", file |-> None, logged |-> FALSE]
           ELSE IF writeOk
             THEN [raise |-> None, file |-> << "pcm", PcmNorm(w) >>, logged |-> TRUE]
             ELSE [raise |-> "OSError", file |-> None, logged |-> FALSE]
    ELSE [raise |-> None, file |-> None, logged |-> TRUE]

StreamIdle ==
    /\ lang = "zh" /\ text = << >> /\ voc_block = 1 /\ voc_pad = 0
    /\ voc_upsample = 1
    /\ active = "caller" /\ inferPc = "entry" /\ runPc = "init" /\ pulls = 0
    /\ phone_ids = Unbound /\ printed = FALSE /\ sentIt = 0 /\ i = Unbound
    /\ mel = Unbound /\ mel_chunks = Unbound /\ chunk_num = Unbound
    /\ chunkIt = 0 /\ sub_wav = Unbound /\ inferErr = None
    /\ amLog = << >> /\ vocLog = << >> /\ inferOut = << >>
    /\ wav_list = << >> /\ emitted = << >> /\ duration = None /\ runErr = None

\* a caller about to invoke postprocess(wav, original_fs, target_fs, volume,
\* speed, audio_path) on a platform with or without soxbindings
PostInit ==
    /\ StreamIdle
    /\ EngineReady
    /\ runArgs = DefaultArgs
    /\ wav \in [col : BOOLEAN, data : SeqsUpTo(Samples, MaxWav)]
    /\ original_fs \in Rates
    /\ target_fs \in TargetRates
    /\ volume \in Volumes
    /\ speed \in Speeds
    /\ audio_path \in Paths
    /\ sox \in {"available", "unavailable"}
    /\ postPc = "call" /\ resampled = FALSE
    /\ wav_tar_fs = UnboundWav /\ wav_vol = UnboundWav /\ wav_speed = UnboundWav
    /\ ret = None /\ postErr = None /\ file = None /\ saveLogged = FALSE

\* lines 208-257: the whole of postprocess; the locals it assigned, the file
\* it wrote and either its return value or the exception that ended it
Postprocess ==
    /\ postPc = "call"
    /\ \E fault \in BOOLEAN, writeOk \in BOOLEAN :
         LET skip  == SkipResample(target_fs, original_fs)
             rate  == IF skip THEN original_fs ELSE target_fs
             wtf   == IF skip THEN wav
                      ELSE Resample(Squeeze(wav), original_fs, target_fs)
             wvol  == Scale(wtf, volume)
             sp    == SpeedStep(SpeedOutcome(sox, fault), wvol, speed)
             saved == SaveStep(audio_path, sp.wav_speed, rate, writeOk)
         IN  /\ resampled' = ~skip
             /\ wav_tar_fs' = wtf
             /\ wav_vol' = wvol
             /\ wav_speed' = sp.wav_speed
             /\ IF sp.raise # None
                  THEN \* line 230
                       /\ postPc' = "raised" /\ postErr' = sp.raise
                       /\ ret' = None /\ file' = None /\ saveLogged' = FALSE
                ELSE IF sp.wav_speed = UnboundWav
                  THEN \* line 239 reads the unassigned wav_speed
                       /\ postPc' = "raised" /\ postErr' = "UnboundLocalError"
                       /\ ret' = None /\ file' = None /\ saveLogged' = FALSE
                ELSE IF saved.raise # None
                  THEN /\ postPc' = "raised" /\ postErr' = saved.raise
                       /\ ret' = None /\ file' = None /\ saveLogged' = FALSE
                ELSE /\ postPc' = "returned" /\ postErr' = None
                     /\ ret' = << rate, EncodeWav(rate, sp.wav_speed) >>
                     /\ file' = saved.file /\ saveLogged' = saved.logged
    /\ UNCHANGED << wav, original_fs, target_fs, volume, speed, audio_path, sox >>
    /\ UNCHANGED << streamVars, engineVars, callVars >>

PostNext == Postprocess

PostSpec == PostInit /\ [][PostNext]_vars

\* ------------------------------------------------------------ properties
\* the audio infer has yielded for sentence s, concatenated in yield order
SentAudio(s) ==
    LET mine == SelectSeq(inferOut, LAMBDA e : e[1] = s)
    IN  Concat([k \in 1..Len(mine) |-> mine[k][2]])

\* the chunk loop of sentence s has run to exhaustion
SentDone(s) ==
    \/ s < sentIt - 1
    \/ s < sentIt /\ inferPc \in {"sentloop", "done"}

\* the samples of the frames [a, b) in frame order
FrameSamples(a, b) ==
    [k \in 1..((b - a) * voc_upsample) |-> a * voc_upsample + k - 1]

\* C1: for every frame count L, block, pad and upsample ratio, the trimmed
\* chunks infer yields for one sentence have, concatenated in yield order,
\* exactly L * voc_upsample samples.
C1_TotalLength ==
    \A s \in 0..(Len(text) - 1) :
        SentDone(s) => Len(SentAudio(s)) = text[s + 1] * voc_upsample

\* a sentence of at least three chunks, cut with a non-zero pad, is complete
C1_Witness ==
    /\ inferPc = "done" /\ voc_pad > 0
    /\ \E s \in 0..(Len(text) - 1) : text[s + 1] > 2 * voc_block

\* C2: the trimmed output of chunk c of a sentence of L frames is exactly
\* the samples of the frames [c*block, min((c+1)*block, L)), also when
\* pad > block, so that a complete sentence's stream holds every frame's
\* samples once and in frame order, as the non-chunked synthesis does.
C2_ExactFrames ==
    /\ \A k \in 1..Len(inferOut) :
         LET s == vocLog[k][1]
             c == vocLog[k][2]
         IN  /\ inferOut[k][1] = s
             /\ inferOut[k][2] =
                  FrameSamples(c * voc_block,
                               Min((c + 1) * voc_block, text[s + 1]))
    /\ \A s \in 0..(Len(text) - 1) :
         SentDone(s) => SentAudio(s) = FrameSamples(0, text[s + 1])

\* an interior chunk and a last chunk were yielded with pad > block
C2_Witness ==
    /\ inferPc = "done" /\ voc_pad > voc_block
    /\ \E k \in 1..Len(inferOut) :
         /\ vocLog[k][2] >= 2
         /\ (vocLog[k][2] + 1) * voc_block < text[vocLog[k][1] + 1]

\* C3: within a sentence the chunks are vocoded and yielded in increasing
\* index order; a vocoder call is made only once every earlier chunk has
\* been yielded by infer and handed on to the caller of run, so at most
\* one chunk is vocoded and not yet yielded.
C3_OneChunkInFlight ==
    /\ Len(inferOut) <= Len(vocLog)
    /\ Len(vocLog) <= Len(inferOut) + 1
    /\ Len(vocLog) <= Len(emitted) + 1
    /\ \A k \in 1..Len(vocLog) :
         vocLog[k][2] =
            Cardinality({j \in 1..(k - 1) : vocLog[j][1] = vocLog[k][1]})
    /\ \A k \in 1..Len(inferOut) : inferOut[k][1] = vocLog[k][1]

\* the third chunk has been vocoded and is not yet yielded
C3_Witness ==
    /\ inferPc = "trim" /\ Len(vocLog) >= 3
    /\ Len(vocLog) = Len(inferOut) + 1

\* C4: the number of vocoder calls made never exceeds the number of pulls
\* the caller has issued: a caller that stops pulling stops the vocoder.
C4_CallsBoundedByPulls == Len(vocLog) <= pulls

\* the caller holds two chunks, further chunks of the sentence remain and
\* every vocoder call so far was paid for by a pull
C4_Witness ==
    /\ active = "caller" /\ runPc = "yielded"
    /\ pulls = 2 /\ Len(vocLog) = 2
    /\ chunkIt < chunk_num

\* C5: with a language other than 'zh' and 'en' the coordinator fails fast
\* with a ConfigurationError once the language has been examined, with no
\* acoustic-model call, no vocoder call and no chunk yielded.
C5_FailFast ==
    (lang \notin {"zh", "en"} /\ inferPc # "entry") =>
        /\ inferPc = "raised" /\ inferErr = "ConfigurationError"
        /\ amLog = << >> /\ vocLog = << >> /\ inferOut = << >>

ModelFailed == inferErr \in {"AmFailure", "VocFailure"}

C7_RunEndsNormally ==
    /\ Len(emitted) <= Len(inferOut)
    /\ \A k \in 1..Len(emitted) :
         emitted[k] = b64encode(float2pcm(inferOut[k][2]))
    /\ (inferPc = "done" /\ active = "caller") =>
         /\ runPc = "done"
         /\ Len(emitted) = Len(inferOut)
         /\ duration = [num |-> Len(Concat([k \in 1..Len(inferOut) |->
                                               inferOut[k][2]])),
                        den |-> fs]

\* C8 as stated: a target rate of 0 or >= the native rate skips the
\* resampling, hands the input waveform to the volume step and returns the
\* native rate; only 0 < target < native resamples.
C8_SkipAtOrAboveNative ==
    postPc # "call" =>
        /\ (target_fs = 0 \/ target_fs >= original_fs) =>
              /\ ~resampled
              /\ wav_tar_fs = wav
              /\ postPc = "returned" => ret[1] = original_fs
        /\ resampled => (0 < target_fs /\ target_fs < original_fs)

\* C8 amended: a target rate of 0 or strictly above the native rate skips
\* the resampling, hands the input waveform to the volume step and returns
\* the native rate; for 0 < target <= native the squeezed waveform goes
\* through librosa.resample and the target rate is returned.
C8_SkipAboveNative ==
    postPc # "call" =>
        /\ (target_fs = 0 \/ target_fs > original_fs) =>
              /\ ~resampled
              /\ wav_tar_fs = wav
              /\ postPc = "returned" => ret[1] = original_fs
        /\ (0 < target_fs /\ target_fs <= original_fs) =>
              /\ resampled
              /\ wav_tar_fs = Resample(Squeeze(wav), original_fs, target_fs)
              /\ postPc = "returned" => ret[1] = target_fs

\* postprocess returned for a column waveform with target = native rate
C8_Witness ==
    /\ postPc = "returned" /\ target_fs = original_fs
    /\ wav.col /\ Len(wav.data) > 0 /\ resampled

\* C9: with a speed other than 1.0 and the speed-change mechanism
\* unavailable, postprocess raises to its caller and returns no encoded
\* audio.
C9_SpeedUnsupportedRaises ==
    (postPc # "call" /\ speed # "1.0" /\ sox = "unavailable") =>
        /\ postPc = "raised" /\ postErr = "ServerBaseException"
        /\ ret = None /\ file = None

\* speed 2.0 was requested without soxbindings and postprocess has ended
C9_Witness ==
    /\ postPc = "raised" /\ speed = "2.0" /\ sox = "unavailable"
    /\ Len(wav.data) > 0

\* C10: at speed 1.0 a failing speed-change step (mechanism unavailable or
\* any other error of change_speed) does not fail postprocess: it encodes
\* the volume-scaled waveform and returns (rate, encoded audio).
C10_SpeedBestEffort ==
    (postPc # "call" /\ speed = "1.0" /\ wav_speed = UnboundWav
       /\ audio_path = None) =>
        /\ postPc = "returned"
        /\ ret = << IF resampled THEN target_fs ELSE original_fs,
                    EncodeWav(IF resampled THEN target_fs ELSE original_fs,
                              wav_vol) >>

\* C11: a failing write of the optional output file does not fail
\* postprocess: whenever the speed step produced a waveform, so that the
\* encoding of lines 238-241 succeeded, postprocess returns the computed
\* (rate, base64 audio).
C11_PersistFailureTolerated ==
    (postPc # "call" /\ wav_speed # UnboundWav) =>
        /\ postPc = "returned"
        /\ ret = << IF resampled THEN target_fs ELSE original_fs,
                    EncodeWav(IF resampled THEN target_fs ELSE original_fs,
                              wav_speed) >>

\* C18: whenever postprocess is called with an output path and returns
\* normally, the processed audio has been written, whatever the
\* extension of the path.
C18_PathSetMeansWritten ==
    (postPc = "returned" /\ audio_path # None) => file # None

\* ------------------------------------------------------- TTSEngine.init
Devices == {"missing", "", "cpu", "gpu:0"}

\* an attribute assignment self.<name> = value
SetAttr(obj, name, value) ==
    [k \in (DOMAIN obj) \cup {name} |-> IF k = name THEN value ELSE obj[k]]

\* a freshly constructed engine (lines 124-127) about to be given a config;
\* config.device may be absent, empty (let paddle choose) or a device name
EngineInitInit ==
    /\ StreamIdle /\ PostIdle /\ runArgs = DefaultArgs
    /\ config \in [device : Devices, am_block : 1..MaxBlock, am_pad : 0..MaxPad,
                   voc_block : 1..MaxBlock, voc_pad : 0..MaxPad]
    /\ engine = << >>
    /\ deviceSet = FALSE /\ loaded = FALSE
    /\ initPc = "call" /\ initRet = None /\ initErr = None

\* lines 132-145: the device the try block selects, or the way it fails:
\* reading config.device or paddle.get_device() may raise before self.device
\* is assigned, paddle.set_device may raise after it
DeviceStep(cfg, getOk, setOk) ==
    IF cfg.device = "missing" THEN [assigned |-> FALSE, ok |-> FALSE, device |-> None]
    ELSE IF cfg.device = ""
      THEN IF getOk THEN [assigned |-> TRUE, ok |-> setOk, device |-> "cpu"]
           ELSE [assigned |-> FALSE, ok |-> FALSE, device |-> None]
    ELSE [assigned |-> TRUE, ok |-> setOk, device |-> cfg.device]

\* lines 129-174: the whole of init(config). The handler of lines 139-145
\* formats self.device into its message, which raises AttributeError when
\* the try block failed before line 135/137 assigned it.
EngineInit ==
    /\ initPc = "call"
    /\ \E getOk \in BOOLEAN, setOk \in BOOLEAN, loadOk \in BOOLEAN :
         LET d  == DeviceStep(config, getOk, setOk)
             e1 == IF d.assigned THEN SetAttr(engine, "device", d.device)
                   ELSE engine
         IN  /\ deviceSet' = d.ok
             /\ IF ~d.ok
                  THEN IF "device" \in DOMAIN e1
                         THEN /\ engine' = e1 /\ loaded' = FALSE
                              /\ initPc' = "returned" /\ initRet' = FALSE
                              /\ initErr' = None
                         ELSE /\ engine' = e1 /\ loaded' = FALSE
                              /\ initPc' = "raised" /\ initRet' = None
                              /\ initErr' = "AttributeError"
                ELSE IF ~loadOk
                  THEN /\ engine' = e1 /\ loaded' = FALSE
                       /\ initPc' = "returned" /\ initRet' = FALSE
                       /\ initErr' = None
                ELSE /\ loaded' = TRUE
                     /\ engine' = SetAttr(SetAttr(SetAttr(SetAttr(e1,
                            "am_block", config.am_block),
                            "am_pad", config.am_pad),
                            "voc_block", config.voc_block),
                            "voc_pad", config.voc_pad)
                     /\ initPc' = "returned" /\ initRet' = TRUE
                     /\ initErr' = None
    /\ UNCHANGED << config, streamVars, postVars, callVars >>

EngineNext == EngineInit

EngineSpec == EngineInitInit /\ [][EngineNext]_vars

ChunkAttrs == {"am_block", "am_pad", "voc_block", "voc_pad"}

\* C12: init never raises: it returns False whenever device selection or
\* model loading failed and True only when both succeeded, and the four
\* chunking parameters are set on the engine only when it returns True.
C12_InitReturnsStatus ==
    initPc # "call" =>
        /\ initPc = "returned"
        /\ initRet = (deviceSet /\ loaded)
        /\ (ChunkAttrs \cap DOMAIN engine # {}) => initRet = TRUE

\* the chunks infer has yielded for sentence s, in yield order
SentChunks(s) ==
    LET mine == SelectSeq(inferOut, LAMBDA e : e[1] = s)
    IN  [k \in 1..Len(mine) |-> mine[k][2]]

\* the frames whose samples a piece of audio holds
Frames(w) == {w[k] \div voc_upsample : k \in 1..Len(w)}

\* the frames a, a+1, ..., b-1 as a mel
FrameSeq(a, b) == [k \in 1..(b - a) |-> a + k - 1]

\* get_chunks has run for the current sentence and its result is in use
Chunked == inferPc \in {"chunkloop", "trim", "yielded"}

\* C13: a sentence of L frames is cut into ceil(L / block) chunks in frame
\* order; what is kept of chunk c is the core range
\* [c*block, min((c+1)*block, L)), and the cores of a completed sentence
\* hold every frame of [0, L) exactly once.
C13_CoresPartition ==
    /\ Chunked => chunk_num = Ceil(Len(mel), voc_block)
    /\ \A s \in 0..(Len(text) - 1) :
         SentDone(s) =>
            LET L  == text[s + 1]
                ch == SentChunks(s)
            IN  /\ Len(ch) = Ceil(L, voc_block)
                /\ \A c \in 1..Len(ch) :
                     Frames(ch[c]) =
                        ((c - 1) * voc_block)..(Min(c * voc_block, L) - 1)
                /\ \A f \in 0..(L - 1) :
                     Cardinality({c \in 1..Len(ch) : f \in Frames(ch[c])}) = 1

\* a sentence of at least three chunks with a short last chunk is complete
C13_Witness ==
    \E s \in 0..(Len(text) - 1) :
        /\ SentDone(s) /\ voc_pad > 0
        /\ text[s + 1] > 2 * voc_block
        /\ text[s + 1] % voc_block # 0

\* what both readings of C14 share: every chunk handed to the vocoder is
\* its core range extended by pad frames on each side and clipped to
\* [0, L), and for L=50, block=42, pad=12 there are 2 chunks, the second
\* one being [30, 50) with core [42, 50), the first having core [0, 42)
C14_Common ==
    /\ \A c \in 1..chunk_num :
         mel_chunks[c] =
            FrameSeq(Max(0, (c - 1) * voc_block - voc_pad),
                     Min(c * voc_block + voc_pad, Len(mel)))
    /\ inferPc = "trim" =>
         Frames(sub_wav) =
            Max(0, i * voc_block - voc_pad)
               ..(Min((i + 1) * voc_block + voc_pad, Len(mel)) - 1)
    /\ (Len(mel) = 50 /\ voc_block = 42 /\ voc_pad = 12) =>
         /\ chunk_num = 2
         /\ mel_chunks[2] = FrameSeq(30, 50)
         /\ \A k \in 1..Len(inferOut) :
              Frames(inferOut[k][2]) = IF k = 1 THEN 0..41 ELSE 42..49

\* C14 as stated: for L=50, block=42, pad=12 chunk 0 has the extended
\* range [0, 42) (and chunk 1 the extended range [30, 50)); every chunk's
\* extended range is its core range extended by up to pad frames on each
\* side, clipped to [0, L).
C14_ScenarioAsStated ==
    Chunked =>
        /\ C14_Common
        /\ (Len(mel) = 50 /\ voc_block = 42 /\ voc_pad = 12) =>
              mel_chunks[1] = FrameSeq(0, 42)

\* C14 amended: for L=50, block=42, pad=12 chunk 0 has the extended range
\* [0, 50) (front pad 0, back pad 8 after clipping) and chunk 1 the
\* extended range [30, 50); every chunk's extended range is its core range
\* extended by up to pad frames on each side, clipped to [0, L).
C14_ScenarioBackPadEight ==
    Chunked =>
        /\ C14_Common
        /\ (Len(mel) = 50 /\ voc_block = 42 /\ voc_pad = 12) =>
              mel_chunks[1] = FrameSeq(0, 50)

\* both chunks of the sentence of 50 frames have been yielded
C14_Witness ==
    /\ inferPc = "yielded" /\ Len(mel) = 50
    /\ voc_block = 42 /\ voc_pad = 12
    /\ Len(inferOut) = 2

\* C15: a sentence of 0 < L <= block frames gives exactly one chunk, whose
\* extended range is its core range [0, L), and the trimmer keeps all of
\* the L * voc_upsample samples the vocoder returned for it.
C15_SingleChunkKeptWhole ==
    (Chunked /\ 0 < Len(mel) /\ Len(mel) <= voc_block) =>
        /\ chunk_num = 1
        /\ mel_chunks[1] = FrameSeq(0, Len(mel))
        /\ inferPc = "yielded" =>
              /\ sub_wav = voc_inference(mel_chunks[1], voc_upsample)
              /\ Len(sub_wav) = Len(mel) * voc_upsample
              /\ Len(SentChunks(sentIt - 1)) = 1

\* the only chunk of a sentence of 10 frames, block 42, has been yielded
C15_Witness ==
    /\ inferPc = "yielded" /\ Len(mel) = 10 /\ voc_block = 42
    /\ Len(inferOut) = 1

\* C16: the acoustic model is called once per sentence, on the sentences
\* 0, 1, ... in order, whatever the chunk loop did to the shared variable
\* i; the chunks of a sentence are all yielded before those of the next,
\* and each sentence is cut according to its own frame count.
C16_SentencesIndependent ==
    /\ Len(amLog) <= Len(text)
    /\ \A k \in 1..Len(amLog) : amLog[k] = k - 1
    /\ Len(amLog) = IF inferPc = "am" THEN sentIt - 1 ELSE sentIt
    /\ inferPc = "done" => Len(amLog) = Len(text)
    /\ \A k \in 1..Len(inferOut) :
         /\ inferOut[k][1] < Len(amLog)
         /\ \A j \in 1..(k - 1) : inferOut[j][1] <= inferOut[k][1]
    /\ \A k \in 1..Len(vocLog) :
         LET s == vocLog[k][1]
         IN  /\ vocLog[k][2] < Ceil(text[s + 1], voc_block)
             /\ k <= Len(inferOut) =>
                  Len(inferOut[k][2]) =
                     (Min((vocLog[k][2] + 1) * voc_block, text[s + 1])
                        - vocLog[k][2] * voc_block) * voc_upsample
    /\ \A s \in 0..(Len(text) - 1) :
         SentDone(s) => Len(SentChunks(s)) = Ceil(text[s + 1], voc_block)

\* two sentences with different chunk counts, the first one of several
\* chunks, have both been synthesised
C16_Witness ==
    /\ inferPc = "done" /\ Len(text) = 2
    /\ Ceil(text[1], voc_block) >= 2
    /\ Ceil(text[2], voc_block) >= 2
    /\ Ceil(text[1], voc_block) # Ceil(text[2], voc_block)

\* --------------------------------------- run(...) with all its arguments
\* values of speed, volume, sample_rate and save_path a caller may pass
RunArgSets ==
    [speed : {"1.0", "2.0"}, volume : {1, 2}, sample_rate : {0, 8000},
     save_path : {None, "out.wav"}]

\* the caller's first pull on run(sentence, spk_id, speed, volume,
\* sample_rate, save_path) for a text of at most one sentence
ArgInit ==
    /\ lang \in Langs
    /\ text \in SeqsUpTo(0..MaxL, 1)
    /\ voc_block \in 1..MaxBlock
    /\ voc_pad \in 0..MaxPad
    /\ voc_upsample \in 1..MaxUp
    /\ active = "caller" /\ inferPc = "entry" /\ runPc = "init" /\ pulls = 0
    /\ phone_ids = Unbound /\ printed = FALSE /\ sentIt = 0 /\ i = Unbound
    /\ mel = Unbound /\ mel_chunks = Unbound /\ chunk_num = Unbound
    /\ chunkIt = 0 /\ sub_wav = Unbound /\ inferErr = None
    /\ amLog = << >> /\ vocLog = << >> /\ inferOut = << >>
    /\ wav_list = << >> /\ emitted = << >> /\ duration = None /\ runErr = None
    /\ PostIdle
    /\ EngineReady
    /\ runArgs \in RunArgSets

ArgSpec == ArgInit /\ [][Next]_vars

\* the chunks a text is cut into, as << sentence, chunk >> in synthesis
\* order: a function of the text and of voc_block alone
ChunkPlan ==
    Concat([s \in 1..Len(text) |->
               [c \in 1..Ceil(text[s], voc_block) |-> << s - 1, c - 1 >>]])

====
